---- MODULE Spec2Model ----
(***************************************************************************)
(* The two Streamlit weather applications of Lab3:                         *)
(*   phase3.py        - the "Predict Weather" button handler               *)
(*   actualphase4.py  - the Gemini chat with the weather tool              *)
(* Each is a sequential script; every action below is one step of a script *)
(* between two calls to an outside service (geocoder, weather provider,    *)
(* language model), whose answer is the action's input.  Dates are day     *)
(* numbers.  A Python value that may be None is a sequence of length 0     *)
(* (None) or 1 (the value).                                                *)
(***************************************************************************)
EXTENDS Integers, Sequences, FiniteSets, TLC

\* ------------------------------------------------------------------ bounds
\* longest candidate list the geocoding service answers with
MaxResults == 2
\* longest daily temperature series the archive service answers with
MaxTemps == 2
\* prompts typed in one chat session
MaxPrompts == 1
\* function calls the model may chain for one prompt
MaxToolCalls == 2

\* ------------------------------------------------------- program constants
\* phase3.py:23  st.slider("Days in the future:", 1, 365, 30)
SliderMin == 1
SliderMax == 365
SliderDefault == 30
\* phase3.py:48  timedelta(days=20*365)
HistoryDays == 20 * 365
\* actualphase4.py:86  min(7, len(daily.get('time', [])))
ForecastDays == 7
\* actualphase4.py:181
max_retries == 3

\* ------------------------------------------------------------ input values
None == << >>
Some(x) == << x >>

Cities == {"Paris", "Atlantis"}
Latitudes == {10, 20}
Populations == {0, 5}
Temps == {50, 70}
\* datetime.now(), as a day number
Dates == {20750, 20751}
\* the slider's two ends, its default, and the two values around one week
SliderValues == {SliderMin, 7, 8, SliderDefault, SliderMax}

\* one entry of the geocoder's "results": "population" may be absent
Candidates == [population : {None} \cup {Some(p) : p \in Populations},
               latitude : Latitudes]

SeqsUpTo(S, n) == UNION {[1..k -> S] : k \in 0..n}

\* the geocoder's JSON body: the "results" key may be absent
GeoBodies ==
    {[hasResults |-> FALSE, results |-> << >>]}
    \cup {[hasResults |-> TRUE, results |-> r] : r \in SeqsUpTo(Candidates, MaxResults)}

\* what requests.get + .json() gives: a body, or an exception
GeoReplies == {[raised |-> TRUE, body |-> [hasResults |-> FALSE, results |-> << >>]]}
              \cup {[raised |-> FALSE, body |-> b] : b \in GeoBodies}

\* the archive's JSON body: the "daily" key may be absent
ArchiveBodies ==
    {[hasDaily |-> FALSE, temps |-> << >>]}
    \cup {[hasDaily |-> TRUE, temps |-> t] : t \in SeqsUpTo(Temps, MaxTemps)}

ArchiveReplies == {[raised |-> TRUE, body |-> [hasDaily |-> FALSE, temps |-> << >>]]}
                  \cup {[raised |-> FALSE, body |-> b] : b \in ArchiveBodies}

RECURSIVE SumSeq(_)
SumSeq(s) == IF s = << >> THEN 0 ELSE Head(s) + SumSeq(Tail(s))

MinOf(s) == CHOOSE x \in {s[i] : i \in DOMAIN s} : \A j \in DOMAIN s : x <= s[j]
MaxOf(s) == CHOOSE x \in {s[i] : i \in DOMAIN s} : \A j \in DOMAIN s : x >= s[j]

VARIABLES
    app,            \* which script the session runs
    pc,             \* the script's position
    outcome,        \* how the last run of the handler ended
    days_ahead,     \* phase3: the slider
    now,            \* phase3: datetime.now() of the run, None before the first
    geo_data,       \* phase3: the geocoder's body
    lat,            \* phase3: lat (with it lon) taken from the body
    start_date,     \* phase3: the archive request's range
    end_date,
    weather_data,   \* phase3: the archive's body
    stats,          \* phase3: avg/min/max of temps
    target_date,    \* phase3: the date the prompt asks about
    geoCalls,       \* requests sent to the geocoder for the current query
    weatherCalls,   \* requests sent to the weather provider for the current query
    llmPosts,       \* POSTs sent to the model for the current query
    messages,       \* actualphase4: st.session_state["messages"]
    prompts,        \* actualphase4: prompts typed so far
    attempt,        \* actualphase4: the retry loop's index in the running invocation
    lastPost,       \* actualphase4: what the latest POST of the running invocation gave
    depth,          \* actualphase4: recursive invocations made for the current prompt
    call,           \* actualphase4: function_call being executed
    toolLat,        \* actualphase4: lat (with it lon) geocode_city returned to the tool
    forecast_data,  \* actualphase4: the forecast service's body the tool read
    function_output,\* actualphase4: what the tool returned to the running invocation
    cache,          \* actualphase4: st.cache_data of geocode_city, by city
    result          \* actualphase4: what call_gemini_api returned to main

p3vars == << days_ahead, now, geo_data, lat, start_date, end_date,
             weather_data, stats, target_date >>
counters == << geoCalls, weatherCalls, llmPosts >>
p4vars == << messages, prompts, attempt, lastPost, depth, call, toolLat,
             forecast_data, function_output, cache, result >>
vars == << app, pc, outcome, p3vars, counters, p4vars >>

NoGeo == [hasResults |-> FALSE, results |-> << >>]
NoArchive == [hasDaily |-> FALSE, temps |-> << >>]
NoStats == [sum |-> 0, n |-> 0, min |-> None, max |-> None]

\* ------------------------------------------------------------------ phase3
P3Resting == pc \in {"idle", "done", "stopped", "crashed"}

\* phase3.py:22-32: the widgets hold their values and the button is pressed
\* (the city and the unit only go into the request URLs and the prompt)
P3Predict ==
    /\ app = "phase3"
    /\ P3Resting
    /\ \E d \in SliderValues, t \in Dates :
          /\ days_ahead' = d
          /\ now' = Some(t)
    /\ pc' = "geocode"
    /\ outcome' = "running"
    /\ geo_data' = NoGeo
    /\ lat' = None
    /\ start_date' = None
    /\ end_date' = None
    /\ weather_data' = NoArchive
    /\ stats' = NoStats
    /\ target_date' = None
    /\ geoCalls' = 0
    /\ weatherCalls' = 0
    /\ llmPosts' = 0
    /\ UNCHANGED << app, p4vars >>

\* phase3.py:41: geo_data["results"][0]["latitude"]
P3FirstResult(body) == body.results[1].latitude

\* phase3.py:33-43: the geocoding step
P3Geocode ==
    /\ app = "phase3"
    /\ pc = "geocode"
    /\ geoCalls' = geoCalls + 1
    /\ \E r \in GeoReplies :
          IF r.raised
          THEN \* requests.get / .json() raised: nothing catches it
               /\ pc' = "crashed"
               /\ outcome' = "exception"
               /\ UNCHANGED << geo_data, lat >>
          ELSE /\ geo_data' = r.body
               /\ IF ~r.body.hasResults
                  THEN \* st.error("City not found! ..."); st.stop()
                       /\ pc' = "stopped"
                       /\ outcome' = "city_not_found"
                       /\ UNCHANGED lat
                  ELSE IF Len(r.body.results) = 0
                  THEN \* [][0]: IndexError, uncaught
                       /\ pc' = "crashed"
                       /\ outcome' = "exception"
                       /\ UNCHANGED lat
                  ELSE /\ lat' = Some(P3FirstResult(r.body))
                       /\ pc' = "archive"
                       /\ UNCHANGED outcome
    /\ UNCHANGED << app, p4vars, days_ahead, now, start_date, end_date,
                    weather_data, stats, target_date, weatherCalls, llmPosts >>

\* phase3.py:47
P3EndDate(t) == t
P3StartDateNoYears(t) == t - 20
\* phase3.py:48
P3StartDate(t) == t - HistoryDays

\* phase3.py:45-65: the historical fetch and its statistics
P3Archive ==
    /\ app = "phase3"
    /\ pc = "archive"
    /\ end_date' = Some(P3EndDate(now[1]))
    /\ start_date' = Some(P3StartDate(now[1]))
    /\ weatherCalls' = weatherCalls + 1
    /\ \E r \in ArchiveReplies :
          IF r.raised
          THEN /\ pc' = "crashed"
               /\ outcome' = "exception"
               /\ UNCHANGED << weather_data, stats >>
          ELSE /\ weather_data' = r.body
               /\ IF ~r.body.hasDaily
                  THEN \* st.error("Couldn't get weather data. ..."); st.stop()
                       /\ pc' = "stopped"
                       /\ outcome' = "no_weather_data"
                       /\ UNCHANGED stats
                  ELSE IF Len(r.body.temps) = 0
                  THEN \* sum(temps) / len(temps): ZeroDivisionError, uncaught
                       /\ pc' = "crashed"
                       /\ outcome' = "exception"
                       /\ UNCHANGED stats
                  ELSE /\ stats' = [sum |-> SumSeq(r.body.temps),
                                    n |-> Len(r.body.temps),
                                    min |-> Some(MinOf(r.body.temps)),
                                    max |-> Some(MaxOf(r.body.temps))]
                       /\ pc' = "ask"
                       /\ UNCHANGED outcome
    /\ UNCHANGED << app, p4vars, days_ahead, now, geo_data, lat, target_date,
                    geoCalls, llmPosts >>

\* phase3.py:78
P3TargetDate(t, d) == t + d

\* phase3.py:75-123: the prompt and the single POST to the model
P3Ask ==
    /\ app = "phase3"
    /\ pc = "ask"
    /\ target_date' = Some(P3TargetDate(now[1], days_ahead))
    /\ llmPosts' = llmPosts + 1
    /\ \E reply \in {"text", "no_text", "raised"} :
          CASE reply = "text" ->
                  /\ pc' = "done"
                  /\ outcome' = "prediction"
            [] reply = "no_text" ->
                  \* the try/except of lines 106-123
                  /\ pc' = "done"
                  /\ outcome' = "no_prediction"
            [] OTHER ->
                  /\ pc' = "crashed"
                  /\ outcome' = "exception"
    /\ UNCHANGED << app, p4vars, days_ahead, now, geo_data, lat, start_date,
                    end_date, weather_data, stats, geoCalls, weatherCalls >>

\* ------------------------------------------------------------ actualphase4
\* actualphase4.py:108-110
AVAILABLE_TOOLS == {"get_current_and_forecast_weather"}

\* names the model may ask for: the declared function, and the other declared
\* tool (actualphase4.py:135), which AVAILABLE_TOOLS does not hold
ToolNames == {"get_current_and_forecast_weather", "google_search"}
\* the functionCall's arguments: well formed, no "args" key at all, or
\* keyword arguments the function does not take
ArgShapes == {"ok", "missing", "unexpected"}
UnitArgs == {"celsius", "fahrenheit", "kelvin"}

NoCall == [name |-> "", args |-> "ok", city |-> "", units |-> ""]
FunctionCalls ==
    {[name |-> "get_current_and_forecast_weather", args |-> "ok", city |-> c, units |-> u] :
        c \in Cities, u \in UnitArgs}
    \cup {[name |-> n, args |-> a, city |-> "Paris", units |-> "celsius"] :
        n \in ToolNames, a \in ArgShapes}

\* what a finished POST carries: a text part, or a functionCall part
ModelReplies == {[kind |-> "text", call |-> NoCall]}
                \cup {[kind |-> "functionCall", call |-> c] : c \in FunctionCalls}

RetryStatusesWide == {400, 429, 500, 503}
\* actualphase4.py:197
RetryStatuses == {429, 500, 503}
HttpErrorStatuses == {400, 429, 500, 503}

\* what one requests.post + raise_for_status + .json() gives, by the except
\* clause that takes it (actualphase4.py:189-212)
NoPost == [kind |-> "none", status |-> 0]
PostOutcomes ==
    {[kind |-> "ok", status |-> 200]}
    \cup {[kind |-> "HTTPError", status |-> s] : s \in HttpErrorStatuses}
    \cup {[kind |-> "RequestException", status |-> 0],
          [kind |-> "JSONDecodeError", status |-> 200]}

\* entries of st.session_state["messages"]
UserMessage == [role |-> "user", kind |-> "text", name |-> ""]
ModelText == [role |-> "model", kind |-> "text", name |-> ""]
ModelFunctionCall(n) == [role |-> "model", kind |-> "functionCall", name |-> n]
FunctionResponse(n) == [role |-> "function", kind |-> "functionResponse", name |-> n]

\* actualphase4.py:17
Greeting == << ModelText >>

NoOutput == [kind |-> "none", forecasts |-> 0]
NoForecast == [raised |-> FALSE, hasDaily |-> FALSE, nTime |-> 0, short |-> FALSE, read |-> FALSE]
EmptyCache == [c \in Cities |-> None]

\* actualphase4.py:310-320: a prompt is typed; main appends it and calls
\* call_gemini_api
P4Prompt ==
    /\ app = "actualphase4"
    /\ pc = "idle"
    /\ prompts < MaxPrompts
    /\ prompts' = prompts + 1
    /\ messages' = Append(messages, UserMessage)
    /\ pc' = "post"
    /\ outcome' = "running"
    /\ attempt' = 0
    /\ lastPost' = NoPost
    /\ depth' = 0
    /\ call' = NoCall
    /\ toolLat' = None
    /\ forecast_data' = NoForecast
    /\ function_output' = NoOutput
    /\ result' = "none"
    /\ geoCalls' = 0
    /\ weatherCalls' = 0
    /\ llmPosts' = 0
    /\ UNCHANGED << app, p3vars, cache >>

\* the variables a step of call_gemini_api or of main writes
P4Step(msgs, pcN, outN, resN, attN, callN) ==
    /\ messages' = msgs
    /\ pc' = pcN
    /\ outcome' = outN
    /\ result' = resN
    /\ attempt' = attN
    /\ call' = callN

\* the locals of the tool and of the invocation that called it
P4Frames(latN, dataN, outN) ==
    /\ toolLat' = latN
    /\ forecast_data' = dataN
    /\ function_output' = outN

\* actualphase4.py:320-327: call_gemini_api returns a result holding "text";
\* main appends the final model message and reruns
P4Return(msgs, res) ==
    /\ P4Step(Append(msgs, ModelText), "idle", "replied", res, attempt, NoCall)
    /\ P4Frames(None, NoForecast, NoOutput)

\* an exception nothing catches ends the script run; the session state stays
P4Crash(msgs) ==
    /\ P4Step(msgs, "idle", "exception", "none", attempt, NoCall)
    /\ P4Frames(None, NoForecast, NoOutput)

\* actualphase4.py:182, 199, 206, 213-215: continue takes the loop to its next
\* index, and to the else branch of the for once range(max_retries) is used up
P4Continue ==
    IF attempt + 1 < max_retries
    THEN /\ P4Step(messages, "post", outcome, result, attempt + 1, call)
         /\ UNCHANGED << toolLat, forecast_data, function_output >>
    ELSE P4Return(messages, "Error: Failed to get a response from Gemini after multiple attempts.")

\* actualphase4.py:197
P4RetryHttp(status) == status \in RetryStatuses /\ attempt < max_retries - 1
\* actualphase4.py:204
P4RetryNetwork == attempt < max_retries - 1

\* actualphase4.py:218-267: the reply of a POST that succeeded
P4HandleReply(reply) ==
    IF reply.kind = "text"
    THEN P4Return(messages, "text")
    ELSE IF reply.call.args = "missing"
    THEN \* function_call['args']: KeyError, before anything is appended
         P4Crash(messages)
    ELSE IF reply.call.name \in AVAILABLE_TOOLS
    THEN /\ P4Step(Append(messages, ModelFunctionCall(reply.call.name)),
                   "tool", outcome, result, attempt, reply.call)
         /\ P4Frames(None, NoForecast, NoOutput)
    ELSE P4Return(Append(messages, ModelFunctionCall(reply.call.name)),
                  "Error: Unknown tool requested by model.")

\* actualphase4.py:180-267: one pass of the retry loop of call_gemini_api
P4Post ==
    /\ app = "actualphase4"
    /\ pc = "post"
    /\ llmPosts' = llmPosts + 1
    /\ \E o \in PostOutcomes :
          /\ lastPost' = o
          /\ CASE o.kind = "HTTPError" ->
                    IF P4RetryHttp(o.status)
                    THEN P4Continue
                    ELSE P4Return(messages, "Error: Could not complete API request.")
               [] o.kind = "RequestException" ->
                    IF P4RetryNetwork
                    THEN P4Continue
                    ELSE P4Return(messages, "Error: Could not connect to the Gemini API.")
               [] o.kind = "JSONDecodeError" ->
                    P4Return(messages, "Error: Could not decode response from Gemini API.")
               [] OTHER ->
                    \E reply \in ModelReplies :
                       /\ reply.kind = "functionCall" => depth < MaxToolCalls
                       /\ P4HandleReply(reply)
    /\ UNCHANGED << app, p3vars, prompts, depth, cache, geoCalls, weatherCalls >>

\* actualphase4.py:41-48: the loop over data["results"]
RECURSIVE BestMatchLoop(_, _, _, _)
BestMatchLoop(results, i, max_population, best_match) ==
    IF i > Len(results)
    THEN best_match
    ELSE LET city_data == results[i]
             current_population ==
                 IF city_data.population = None THEN 0 ELSE city_data.population[1]
         IN  IF current_population > max_population
             THEN BestMatchLoop(results, i + 1, current_population, Some(city_data))
             ELSE BestMatchLoop(results, i + 1, max_population, best_match)

\* actualphase4.py:22-53: geocode_city, from the service's reply to the
\* latitude (with it the longitude) it returns, or None
GeocodeCity(reply) ==
    IF reply.raised
    THEN None
    ELSE IF ~reply.body.hasResults \/ Len(reply.body.results) = 0
    THEN None
    ELSE LET best_match == BestMatchLoop(reply.body.results, 1, -1, None)
         IN  IF best_match = None THEN None ELSE Some(best_match[1].latitude)

\* the function's output handed back as the answer, with no second request
P4ToolReturnsNoRecursion(data, out) ==
    /\ depth' = depth + 1
    /\ lastPost' = lastPost
    /\ P4Return(Append(messages, FunctionResponse(call.name)), "text")

\* actualphase4.py:245-257: the function response is appended and
\* call_gemini_api calls itself
P4ToolReturns(data, out) ==
    /\ P4Frames(None, data, out)
    /\ depth' = depth + 1
    /\ lastPost' = NoPost
    /\ P4Step(Append(messages, FunctionResponse(call.name)), "post", outcome, result, 0, NoCall)

\* actualphase4.py:62
ValidUnits == {"celsius", "fahrenheit"}

ToolError(what) == [kind |-> what, forecasts |-> 0]

\* actualphase4.py:65-67: lat, lon = geocode_city(city); if lat is None: ...
P4ToolGeocoded(found) ==
    IF found = None
    THEN P4ToolReturns(NoForecast, ToolError("error_no_coordinates"))
    ELSE /\ P4Step(messages, "forecast", outcome, result, attempt, call)
         /\ P4Frames(found, NoForecast, NoOutput)
         /\ UNCHANGED << depth, lastPost >>

\* actualphase4.py:243, 62-67, 21-53: the tool is called; it checks units and
\* asks geocode_city, which st.cache_data answers for a city it holds
P4ToolGeocode ==
    /\ app = "actualphase4"
    /\ pc = "tool"
    /\ IF call.args = "unexpected"
       THEN \* func_to_call(**func_args): TypeError, uncaught
            /\ P4Crash(messages)
            /\ UNCHANGED << depth, lastPost, cache, geoCalls >>
       ELSE IF call.units \notin ValidUnits
       THEN /\ P4ToolReturns(NoForecast, ToolError("error_invalid_units"))
            /\ UNCHANGED << cache, geoCalls >>
       ELSE IF cache[call.city] # None
       THEN \* st.cache_data answers: geocode_city does not run
            /\ P4ToolGeocoded(cache[call.city][1])
            /\ UNCHANGED << cache, geoCalls >>
       ELSE \E r \in GeoReplies :
               /\ geoCalls' = geoCalls + 1
               /\ cache' = [cache EXCEPT ![call.city] = Some(GeocodeCity(r))]
               /\ P4ToolGeocoded(GeocodeCity(r))
    /\ UNCHANGED << app, p3vars, prompts, weatherCalls, llmPosts >>

\* lengths of daily["time"]: none, and more than a week
ForecastLengths == {0, ForecastDays + 1}

\* the forecast service's JSON body: "daily" may be absent; nTime is
\* len(daily["time"]); short says the temperature arrays end before time does
ForecastReplies ==
    {[raised |-> TRUE, hasDaily |-> FALSE, nTime |-> 0, short |-> FALSE, read |-> TRUE],
     [raised |-> FALSE, hasDaily |-> FALSE, nTime |-> 0, short |-> FALSE, read |-> TRUE]}
    \cup {[raised |-> FALSE, hasDaily |-> TRUE, nTime |-> n, short |-> b, read |-> TRUE] :
             n \in ForecastLengths, b \in BOOLEAN}

\* actualphase4.py:84-86
ForecastCount(r) ==
    LET nTime == IF r.hasDaily THEN r.nTime ELSE 0
    IN  IF ForecastDays < nTime THEN ForecastDays ELSE nTime

\* actualphase4.py:73-105: from the service's reply to the tool's JSON
ForecastOutput(r) ==
    IF r.raised
    THEN ToolError("error_fetching")
    ELSE IF ForecastCount(r) > 0 /\ r.short
    THEN \* daily['temperature_2m_max'][i]: KeyError or IndexError, caught at 104
         ToolError("error_fetching")
    ELSE [kind |-> "forecast", forecasts |-> ForecastCount(r)]

\* actualphase4.py:69-76: the forecast request of the tool
P4ToolForecast ==
    /\ app = "actualphase4"
    /\ pc = "forecast"
    /\ weatherCalls' = weatherCalls + 1
    /\ \E r \in ForecastReplies :
          /\ P4Step(messages, "build", outcome, result, attempt, call)
          /\ P4Frames(toolLat, r, NoOutput)
    /\ UNCHANGED << app, p3vars, prompts, cache, geoCalls, llmPosts, depth, lastPost >>

\* actualphase4.py:78-105, 245-257: the tool builds its JSON from the body and
\* returns it
P4ToolBuild ==
    /\ app = "actualphase4"
    /\ pc = "build"
    /\ P4ToolReturns(NoForecast, ForecastOutput(forecast_data))
    /\ UNCHANGED << app, p3vars, prompts, cache, counters >>

\* actualphase4.py:21: ttl=3600, an entry of the cache runs out (an hour
\* passes between two prompts, not within one)
P4CacheExpire ==
    /\ app = "actualphase4"
    /\ pc = "idle"
    /\ \E c \in Cities :
          /\ cache[c] # None
          /\ cache' = [cache EXCEPT ![c] = None]
    /\ UNCHANGED << app, pc, outcome, p3vars, counters, messages, prompts, attempt,
                    lastPost, depth, call, toolLat, forecast_data, function_output,
                    result >>

Init ==
    /\ app \in {"phase3", "actualphase4"}
    /\ pc = "idle"
    /\ outcome = "none"
    /\ days_ahead = SliderDefault
    /\ now = None
    /\ geo_data = NoGeo
    /\ lat = None
    /\ start_date = None
    /\ end_date = None
    /\ weather_data = NoArchive
    /\ stats = NoStats
    /\ target_date = None
    /\ geoCalls = 0
    /\ weatherCalls = 0
    /\ llmPosts = 0
    /\ messages = IF app = "actualphase4" THEN Greeting ELSE << >>
    /\ prompts = 0
    /\ attempt = 0
    /\ lastPost = NoPost
    /\ depth = 0
    /\ call = NoCall
    /\ toolLat = None
    /\ forecast_data = NoForecast
    /\ function_output = NoOutput
    /\ cache = EmptyCache
    /\ result = "none"

Next ==
    \/ P3Predict
    \/ P3Geocode
    \/ P3Archive
    \/ P3Ask
    \/ P4Prompt
    \/ P4Post
    \/ P4ToolGeocode
    \/ P4ToolForecast
    \/ P4ToolBuild
    \/ P4CacheExpire

Spec == Init /\ [][Next]_vars

\* ================================================================== claims
Pop(c) == IF c.population = None THEN 0 ELSE c.population[1]

\* the first candidate among those of the highest population
IsHighestFirst(results, i) ==
    /\ \A j \in DOMAIN results : Pop(results[j]) <= Pop(results[i])
    /\ \A j \in 1..(i - 1) : Pop(results[j]) < Pop(results[i])

P3Geocoded == app = "phase3" /\ lat # None

\* C1: for every non-empty candidate list the geocoder returns the coordinates
\* of the candidate with the highest population, the first of them on a tie
\* (populations equal or absent).  Stated on phase3's geocoding step, whose
\* body geo_data stays in the state.
C1_HighestPopulation ==
    P3Geocoded =>
        \E i \in DOMAIN geo_data.results :
            /\ IsHighestFirst(geo_data.results, i)
            /\ lat = Some(geo_data.results[i].latitude)

P3Fetched == app = "phase3" /\ start_date # None /\ end_date # None

\* C2, as claimed: a horizon of at most 7 days is answered from the trailing
\* 7-day window, a longer one from the long-range history.
C2_DispatchByHorizon ==
    P3Fetched =>
        IF days_ahead <= 7
        THEN end_date = now /\ end_date[1] - start_date[1] = 7
        ELSE end_date[1] - start_date[1] > 7

\* C2, amended: every horizon the slider accepts (1..365) is answered from the
\* same 20-year history ending today; days_ahead only sets the date the
\* prompt asks about, today + days_ahead.  The chat tool takes no horizon and
\* returns at most the first 7 forecast days.
C2_EveryHorizonUsesHistory ==
    /\ app = "phase3" => days_ahead \in SliderMin..SliderMax
    /\ P3Fetched => /\ end_date = now
                    /\ start_date = Some(now[1] - 20 * 365)
    /\ (app = "phase3" /\ target_date # None) =>
           /\ P3Fetched
           /\ target_date = Some(now[1] + days_ahead)
    /\ app = "actualphase4" => function_output.forecasts <= 7

C2_Witness ==
    /\ app = "phase3"
    /\ pc = "done"
    /\ outcome = "prediction"
    /\ days_ahead = 7
    /\ target_date = Some(now[1] + 7)

\* a query has been answered: phase3's handler ran to its end, or
\* call_gemini_api returned to main and main appended the reply
QueryAnswered ==
    \/ app = "phase3" /\ pc = "done"
    \/ app = "actualphase4" /\ pc = "idle" /\ outcome = "replied"

\* function calls of the model that the current query has started to execute
ToolCallsMade == depth + (IF pc \in {"tool", "forecast", "build"} THEN 1 ELSE 0)

\* C3, as claimed: one query sends at most one geocoding request and asks the
\* model exactly once.
C3_OneGeocodeOneLLM ==
    QueryAnswered => geoCalls <= 1 /\ llmPosts = 1

\* C3, amended: a chat query sends at most one geocoding request per function
\* call the model made, and one composition request per invocation of
\* call_gemini_api (the first, and one more after every executed function
\* call), each POSTed 1 to max_retries times; a query answered in plain text
\* at the first attempt POSTs once and never geocodes.  phase3's handler sends
\* one geocoding request and at most one POST, exactly one when it runs to its
\* end.
C3_CallsPerQuery ==
    /\ app = "actualphase4" =>
          /\ geoCalls <= ToolCallsMade
          /\ weatherCalls <= ToolCallsMade
          /\ llmPosts <= 3 * (depth + 1)
          /\ llmPosts >= depth
          /\ QueryAnswered => llmPosts >= depth + 1
          /\ (QueryAnswered /\ depth = 0 /\ attempt = 0) =>
                 llmPosts = 1 /\ geoCalls = 0
    /\ app = "phase3" =>
          /\ geoCalls <= 1
          /\ llmPosts <= 1
          /\ pc \notin {"idle", "geocode"} => geoCalls = 1
          /\ QueryAnswered => llmPosts = 1

C3_Witness ==
    /\ app = "actualphase4"
    /\ QueryAnswered
    /\ result = "text"
    /\ depth = 2
    /\ geoCalls = 2
    /\ llmPosts = 5

Unresolved3 == app = "phase3" /\ geoCalls = 1 /\ pc # "geocode" /\ lat = None

\* C4: when the geocoder cannot resolve the city (no results, an empty list,
\* a failed request) the operation ends at once with the not-found error and
\* no weather request is sent; it never goes on without coordinates and never
\* fails another way.
C4_UnresolvedIsNotFound ==
    /\ Unresolved3 => /\ pc = "stopped"
                      /\ outcome = "city_not_found"
                      /\ weatherCalls = 0
    /\ (app = "actualphase4" /\ pc \in {"forecast", "build"}) => toolLat # None
    /\ (app = "actualphase4" /\ function_output.kind = "error_no_coordinates") =>
           forecast_data = NoForecast

\* C5: a weather response that carries no daily data gives an error outcome,
\* never a successful payload.
C5_NoDailyIsError ==
    [][(app = "actualphase4" /\ pc = "build" /\ ~forecast_data.raised
          /\ ~forecast_data.hasDaily)
       => function_output'.kind # "forecast"]_vars

Retryable(o) ==
    \/ o.kind = "HTTPError" /\ o.status \in {429, 500, 503}
    \/ o.kind = "RequestException"

\* C6: one invocation of call_gemini_api POSTs at most max_retries = 3 times;
\* it POSTs again only after a 429, 500 or 503 status or a network error, and
\* only while attempts remain; any other HTTP error status ends the invocation
\* with an error result at that attempt.
C6_RetryPolicy ==
    app = "actualphase4" =>
       /\ attempt \in 0..2
       /\ depth = 0 =>
             llmPosts = attempt + (IF pc = "post" \/ lastPost = NoPost THEN 0 ELSE 1)
       /\ (pc = "post" /\ attempt > 0) => Retryable(lastPost)
       /\ (pc = "post" /\ attempt = 0) => lastPost = NoPost
       /\ (lastPost.kind = "HTTPError" /\ lastPost.status \notin {429, 500, 503}) =>
              /\ pc = "idle"
              /\ result = "Error: Could not complete API request."

C6_Witness ==
    /\ app = "actualphase4"
    /\ pc = "idle"
    /\ attempt = 1
    /\ llmPosts = 2
    /\ lastPost = [kind |-> "HTTPError", status |-> 400]
    /\ result = "Error: Could not complete API request."

\* C7: when all max_retries attempts fail, call_gemini_api returns the result
\* whose text is 'Error: Failed to get a response from Gemini after multiple
\* attempts.'
C7_ExhaustedResult ==
    (/\ app = "actualphase4"
     /\ pc = "idle"
     /\ outcome = "replied"
     /\ attempt = max_retries - 1
     /\ lastPost.kind \in {"HTTPError", "RequestException"})
    => result = "Error: Failed to get a response from Gemini after multiple attempts."

\* C8: whenever call_gemini_api has returned to main, every functionCall
\* message is followed at once by the function response of the same tool,
\* every function response is preceded at once by such a functionCall, and the
\* prompt's final model text comes after them.
C8_HistoryOrder ==
    (app = "actualphase4" /\ pc = "idle" /\ outcome = "replied") =>
       /\ \A i \in DOMAIN messages :
             messages[i].kind = "functionCall" =>
                /\ i < Len(messages)
                /\ messages[i + 1] = FunctionResponse(messages[i].name)
       /\ \A i \in DOMAIN messages :
             messages[i].kind = "functionResponse" =>
                /\ i > 1
                /\ messages[i - 1] = ModelFunctionCall(messages[i].name)
       /\ messages[Len(messages)] = ModelText
====
